---- MODULE Spec2Model ----
(***************************************************************************)
(* A model of the reasoning core of PyRes: the priority clause queue       *)
(* (minheap.py), the literal data model with its print/parse functions     *)
(* (literals.py) and the inference-integration loops (rescontrol.py).      *)
(*                                                                         *)
(* minheap.py is read with Python 3 semantics: `/` is true division and    *)
(* math.ceil returns an int, the only reading under which the result of    *)
(* math.ceil can index a list.                                             *)
(***************************************************************************)
EXTENDS Integers, Sequences, FiniteSets, TLC

(* ------------------------------ bounds -------------------------------- *)
MaxHeap == 5        \* largest number of nodes held by the queue
MaxEval == 2        \* evaluations are drawn from 1..MaxEval
MaxLits == 2        \* longest literal list built and printed
MaxResLits == 2     \* longest clause given to computeAllResolvents
MaxPartners == 2    \* longest partner list returned for one literal
MaxFacLits == 3     \* longest clause given to computeAllFactors

\* the (clause reference, auxiliary payload) pairs a caller inserts
Payloads == {<<"c1", "k1">>, <<"c2", "k2">>}
Evals   == 1..MaxEval
None    == "None"                \* Python's None

VARIABLES
    tree,     \* MinHeap.tree: sequence of <<evaluation, clause, count>>
    ret,      \* value returned by the last call (<<>> when none was returned)
    raised,   \* TRUE iff the last call raised instead of returning
    lastOp,   \* "init", "insert" or "getBest"
    pure,     \* TRUE while the run is inserts followed by getBests only
    ins,      \* payloads inserted so far, in call order (while pure)
    outs,     \* outcomes of the getBest calls since the last insert
    lits,     \* a literal list built by construction and instantiation
    cons,     \* the last constructor call: its arguments and its result
    str,      \* the token string last printed, and the list it was printed from
    parsed,   \* the result of the last parseLiteralList call, and its origin
    cmp,      \* the last pair of literals compared, with the answers
    inf       \* the last computeAllResolvents / computeAllFactors call

heapVars == <<tree, ret, raised, lastOp, pure, ins, outs>>
litVars  == <<lits, cons, str, parsed, cmp>>
vars == <<tree, ret, raised, lastOp, pure, ins, outs,
          lits, cons, str, parsed, cmp, inf>>

(* ============================ minheap.py ============================== *)

\* self.tree[i], for a 0-based Python index i
At(t, i) == t[i + 1]

\* MinHeap.switch
switch(t, node1, node2) ==
    [t EXCEPT ![node1 + 1] = t[node2 + 1], ![node2 + 1] = t[node1 + 1]]

\* math.ceil(x / 2) for an integer x (true division, then ceiling)
CeilHalf(x) == IF x % 2 = 0 THEN x \div 2 ELSE (x \div 2) + 1

\* parent = math.ceil((node / 2) - 1)
Parent(node) == CeilHalf(node - 2)

\* a plausible slip: one swap with the parent, without continuing upwards
bubbleupOnce(t, node) ==
    IF node = 0 THEN t
    ELSE LET parent == Parent(node) IN
         IF At(t, parent)[1] <= At(t, node)[1] THEN t
         ELSE switch(t, node, parent)

RECURSIVE bubbleup(_, _)
\* MinHeap.bubbleup
bubbleup(t, node) ==
    IF node = 0 THEN t
    ELSE LET parent == Parent(node) IN
         IF At(t, parent)[1] <= At(t, node)[1] THEN t
         ELSE bubbleup(switch(t, node, parent), parent)

\* MinHeap.insert
insert(t, clause, count, evaluation) ==
    bubbleup(Append(t, <<evaluation, clause, count>>), Len(t))

RECURSIVE bubbledownLarger(_, _)
\* a plausible slip: the comparison of the two children is inverted
bubbledownLarger(t, node) ==
    LET leftchild == (2 * node) + 1
        rightchild == leftchild + 1 IN
    IF leftchild > Len(t) - 1 THEN t
    ELSE IF rightchild > Len(t) - 1 THEN
        IF At(t, leftchild)[1] < At(t, node)[1]
        THEN switch(t, node, leftchild) ELSE t
    ELSE IF At(t, leftchild)[1] < At(t, node)[1]
            \/ At(t, rightchild)[1] < At(t, node)[1] THEN
        IF At(t, leftchild)[1] >= At(t, rightchild)[1]
        THEN bubbledownLarger(switch(t, node, leftchild), leftchild)
        ELSE bubbledownLarger(switch(t, node, rightchild), rightchild)
    ELSE t

RECURSIVE bubbledown(_, _)
\* MinHeap.bubbledown
bubbledown(t, node) ==
    LET leftchild == (2 * node) + 1
        rightchild == leftchild + 1 IN
    IF leftchild > Len(t) - 1 THEN t
    ELSE IF rightchild > Len(t) - 1 THEN
        IF At(t, leftchild)[1] < At(t, node)[1]
        THEN switch(t, node, leftchild) ELSE t
    ELSE IF At(t, leftchild)[1] < At(t, node)[1]
            \/ At(t, rightchild)[1] < At(t, node)[1] THEN
        IF At(t, leftchild)[1] <= At(t, rightchild)[1]
        THEN bubbledown(switch(t, node, leftchild), leftchild)
        ELSE bubbledown(switch(t, node, rightchild), rightchild)
    ELSE t

\* a plausible slip: the empty queue answers like a real node
getBestNoSignal(t) ==
    IF t = <<>> THEN [tree |-> t, raised |-> FALSE, ret |-> <<None, None, FALSE>>]
    ELSE LET popped == t[Len(t)]
             rest == SubSeq(t, 1, Len(t) - 1) IN
         IF rest = <<>> THEN [tree |-> rest, raised |-> TRUE, ret |-> <<>>]
         ELSE [tree |-> bubbledown([rest EXCEPT ![1] = popped], 0),
               raised |-> FALSE, ret |-> <<t[1][2], t[1][3], FALSE>>]

\* MinHeap.getBest: the tree left behind, whether the call raised, and the
\* value returned.  In `self.tree[0] = self.tree.pop()` the right-hand side
\* is evaluated first; when the popped node was the only one, the store to
\* index 0 of the now empty list raises IndexError.
getBest(t) ==
    IF t = <<>> THEN [tree |-> t, raised |-> FALSE, ret |-> <<None, None, TRUE>>]
    ELSE LET clause == t[1][2]
             count == t[1][3]
             popped == t[Len(t)]
             rest == SubSeq(t, 1, Len(t) - 1) IN
         IF rest = <<>> THEN [tree |-> rest, raised |-> TRUE, ret |-> <<>>]
         ELSE [tree |-> bubbledown([rest EXCEPT ![1] = popped], 0),
               raised |-> FALSE, ret |-> <<clause, count, FALSE>>]

MaxCalls == MaxHeap + 2   \* getBest calls recorded between two inserts

\* the outcome of one getBest call, as recorded in outs
Outcome(t, r) ==
    IF r.raised THEN [st |-> "raised", ev |-> 0, clause |-> None, count |-> None]
    ELSE IF r.ret[3] THEN [st |-> "exhausted", ev |-> 0, clause |-> r.ret[1], count |-> r.ret[2]]
    ELSE [st |-> "node", ev |-> IF t = <<>> THEN 0 ELSE t[1][1],
          clause |-> r.ret[1], count |-> r.ret[2]]

Insert ==
    /\ Len(tree) < MaxHeap
    /\ \E p \in Payloads, evaluation \in Evals :
          /\ tree' = insert(tree, p[1], p[2], evaluation)
          /\ ins' = IF pure /\ outs = <<>> THEN Append(ins, p) ELSE <<>>
    /\ pure' = (pure /\ outs = <<>>)
    /\ outs' = <<>>
    /\ ret' = <<>>
    /\ raised' = FALSE
    /\ lastOp' = "insert"
    /\ UNCHANGED <<litVars, inf>>

GetBest ==
    /\ Len(outs) < MaxCalls
    /\ LET r == getBest(tree) IN
          /\ tree' = r.tree
          /\ ret' = r.ret
          /\ raised' = r.raised
          /\ outs' = Append(outs, Outcome(tree, r))
    /\ lastOp' = "getBest"
    /\ UNCHANGED <<pure, ins, litVars, inf>>

(* ============================ literals.py ============================= *)
(* A term is a sequence whose head is a symbol and whose tail holds the    *)
(* argument terms; a variable is <<name>> with name in VarNames.  A string *)
(* is the sequence of tokens the lexer delivers for it.                    *)

VarNames == {"X"}

\* terms.py: termFunc
termFunc(t) == t[1]

\* terms.py: termArgs
termArgs(t) == SubSeq(t, 2, Len(t))

\* terms.py: termIsVar
termIsVar(t) == Len(t) = 1 /\ t[1] \in VarNames

RECURSIVE termEqual(_, _)
\* terms.py: termEqual, the recursive structural comparison
termEqual(t1, t2) ==
    IF termIsVar(t1) \/ termIsVar(t2)
    THEN termIsVar(t1) /\ termIsVar(t2) /\ t1[1] = t2[1]
    ELSE /\ termFunc(t1) = termFunc(t2)
         /\ Len(t1) = Len(t2)
         /\ \A k \in 2..Len(t1) : termEqual(t1[k], t2[k])

RECURSIVE JoinWith(_, _)
\* sep.join(parts) on token sequences
JoinWith(sep, parts) ==
    IF parts = <<>> THEN <<>>
    ELSE IF Len(parts) = 1 THEN parts[1]
    ELSE parts[1] \o <<sep>> \o JoinWith(sep, Tail(parts))

RECURSIVE term2String(_)
\* terms.py: term2String
term2String(t) ==
    IF Len(t) = 1 THEN <<t[1]>>
    ELSE <<termFunc(t), "(">>
         \o JoinWith(",", [k \in 1..(Len(t) - 1) |-> term2String(t[k + 1])])
         \o <<")">>

\* lexer.py: the literal text of the current token ("" at the end of input)
LookLit(toks) == IF toks = <<>> THEN "" ELSE toks[1]

RECURSIVE parseTerm(_)
RECURSIVE parseTermList(_)
\* terms.py: parseTerm; yields the term and the tokens left
parseTerm(toks) ==
    LET h == toks[1] IN
    IF h \in VarNames THEN [term |-> <<h>>, rest |-> Tail(toks)]
    ELSE IF LookLit(Tail(toks)) = "("
    THEN LET a == parseTermList(Tail(Tail(toks))) IN
         [term |-> <<h>> \o a.terms, rest |-> Tail(a.rest)]
    ELSE [term |-> <<h>>, rest |-> Tail(toks)]

\* terms.py: parseTermList; terms separated by commas
parseTermList(toks) ==
    LET first == parseTerm(toks) IN
    IF LookLit(first.rest) = ","
    THEN LET more == parseTermList(Tail(first.rest)) IN
         [terms |-> <<first.term>> \o more.terms, rest |-> more.rest]
    ELSE [terms |-> <<first.term>>, rest |-> first.rest]

RECURSIVE applySubst(_, _)
\* substitutions.py: Substitution.__call__, applied to a term
applySubst(subst, t) ==
    IF termIsVar(t)
    THEN IF t[1] \in DOMAIN subst THEN subst[t[1]] ELSE t
    ELSE <<termFunc(t)>> \o [k \in 1..(Len(t) - 1) |-> applySubst(subst, t[k + 1])]

\* parseAtom
parseAtom(toks) ==
    LET first == parseTerm(toks) IN
    IF LookLit(first.rest) \in {"=", "!="}
    THEN LET op == first.rest[1]
             lhs == first.term
             second == parseTerm(Tail(first.rest)) IN
         [atom |-> <<op, lhs, second.term>>, rest |-> second.rest]
    ELSE [atom |-> first.term, rest |-> first.rest]

\* a plausible slip: the head is rewritten but the sign is not flipped
LiteralKeepSign(atom, negative) ==
    IF termFunc(atom) = "!="
    THEN [negative |-> negative, atom |-> <<"=">> \o termArgs(atom)]
    ELSE [negative |-> negative, atom |-> atom]

\* Literal.__init__
Literal(atom, negative) ==
    IF termFunc(atom) = "!="
    THEN [negative |-> ~negative, atom |-> <<"=">> \o termArgs(atom)]
    ELSE [negative |-> negative, atom |-> atom]

\* Literal.isEquational
isEquational(lit) == termFunc(lit.atom) = "="

\* Literal.isNegative
isNegative(lit) == lit.negative

\* Literal.isPositive
isPositive(lit) == ~lit.negative

\* a plausible slip: the operator does not depend on the sign
reprAlwaysEq(lit) ==
    IF isEquational(lit)
    THEN term2String(termArgs(lit.atom)[1]) \o <<"=">>
         \o term2String(termArgs(lit.atom)[2])
    ELSE IF isNegative(lit) THEN <<"~">> \o term2String(lit.atom)
    ELSE term2String(lit.atom)

\* Literal.__repr__
repr(lit) ==
    IF isEquational(lit)
    THEN LET op == IF isNegative(lit) THEN "!=" ELSE "=" IN
         term2String(termArgs(lit.atom)[1]) \o <<op>>
         \o term2String(termArgs(lit.atom)[2])
    ELSE IF isNegative(lit) THEN <<"~">> \o term2String(lit.atom)
    ELSE term2String(lit.atom)

\* Literal.isEqual
isEqual(self, other) ==
    isNegative(self) = isNegative(other) /\ termEqual(self.atom, other.atom)

\* a plausible slip: == where != was meant
isOppositeSameSign(self, other) ==
    isNegative(self) = isNegative(other) /\ termEqual(self.atom, other.atom)

\* Literal.isOpposite
isOpposite(self, other) ==
    isNegative(self) # isNegative(other) /\ termEqual(self.atom, other.atom)

\* Literal.instantiate
instantiate(self, subst) == Literal(applySubst(subst, self.atom), self.negative)

\* parseLiteral
parseLiteral(toks) ==
    LET negative == LookLit(toks) = "~"
        a == parseAtom(IF negative THEN Tail(toks) ELSE toks) IN
    [lit |-> Literal(a.atom, negative), rest |-> a.rest]

RECURSIVE parseLiteralListLoop(_, _)
\* parseLiteralList: the while loop over "|"
parseLiteralListLoop(res, toks) ==
    IF LookLit(toks) = "|"
    THEN LET t1 == Tail(toks) IN
         IF LookLit(t1) = "$false"
         THEN parseLiteralListLoop(res, Tail(t1))
         ELSE LET l == parseLiteral(t1) IN
              parseLiteralListLoop(Append(res, l.lit), l.rest)
    ELSE res

\* parseLiteralList
parseLiteralList(toks) ==
    IF LookLit(toks) = "$false"
    THEN parseLiteralListLoop(<<>>, Tail(toks))
    ELSE LET l == parseLiteral(toks) IN
         parseLiteralListLoop(<<l.lit>>, l.rest)

\* literalList2String
literalList2String(list) ==
    IF list = <<>> THEN <<"$false">>
    ELSE JoinWith("|", [k \in 1..Len(list) |-> repr(list[k])])

(* ----- the inputs of the literal operations ----- *)
Sides == {<<"a">>, <<"X">>}
PredAtoms == {<<"c">>, <<"p", <<"X">>>>, <<"q", <<"f", <<"X">>>>, <<"a">>>>}
Atoms == PredAtoms \cup {<<op, l, r>> : op \in {"=", "!="}, l \in Sides, r \in Sides}
Substs == {[v \in VarNames |-> <<"a">>]}

NoLit == [negative |-> FALSE, atom |-> <<"c">>]
NoCons == [valid |-> FALSE, atom |-> <<"c">>, negative |-> FALSE, lit |-> NoLit]
NoStr == [valid |-> FALSE, toks |-> <<>>, of |-> <<>>, front |-> FALSE, back |-> FALSE]
NoParsed == [valid |-> FALSE, lits |-> <<>>, of |-> <<>>, front |-> FALSE, back |-> FALSE]
NoCmp == [valid |-> FALSE, a |-> NoLit, b |-> NoLit,
          eqAB |-> FALSE, oppAB |-> FALSE, oppBA |-> FALSE, oppAA |-> FALSE]

\* Literal(atom, negative), the result appended to the list
Construct ==
    /\ Len(lits) < MaxLits
    /\ \E atom \in Atoms, negative \in BOOLEAN :
          LET lit == Literal(atom, negative) IN
          /\ lits' = Append(lits, lit)
          /\ cons' = [valid |-> TRUE, atom |-> atom, negative |-> negative, lit |-> lit]
    /\ str' = NoStr
    /\ parsed' = NoParsed
    /\ cmp' = NoCmp
    /\ UNCHANGED <<heapVars, inf>>

\* lits[i] = lits[i].instantiate(subst)
Instantiate ==
    /\ \E i \in DOMAIN lits, subst \in Substs :
          /\ instantiate(lits[i], subst) # lits[i]
          /\ lits' = [lits EXCEPT ![i] = instantiate(lits[i], subst)]
    /\ cons' = NoCons
    /\ str' = NoStr
    /\ parsed' = NoParsed
    /\ cmp' = NoCmp
    /\ UNCHANGED <<heapVars, inf>>

\* str = literalList2String(lits)
PrintList ==
    /\ str' = [valid |-> TRUE, toks |-> literalList2String(lits), of |-> lits,
               front |-> FALSE, back |-> FALSE]
    /\ parsed' = NoParsed
    /\ cmp' = NoCmp
    /\ UNCHANGED <<lits, cons, heapVars, inf>>

\* a $false disjunct is put before or after the printed string, as in the
\* test input "$false|~q(f(X,a), b)|$false"
AddFalse ==
    /\ str.valid
    /\ \/ /\ ~str.front
          /\ str' = [str EXCEPT !.toks = <<"$false", "|">> \o @, !.front = TRUE]
       \/ /\ ~str.back
          /\ str' = [str EXCEPT !.toks = @ \o <<"|", "$false">>, !.back = TRUE]
    /\ parsed' = NoParsed
    /\ cmp' = NoCmp
    /\ UNCHANGED <<lits, cons, heapVars, inf>>

\* parsed = parseLiteralList(Lexer(str))
ParseList ==
    /\ str.valid
    /\ parsed' = [valid |-> TRUE, lits |-> parseLiteralList(str.toks), of |-> str.of,
                  front |-> str.front, back |-> str.back]
    /\ cmp' = NoCmp
    /\ UNCHANGED <<lits, cons, str, heapVars, inf>>

\* a.isEqual(b), a.isOpposite(b), b.isOpposite(a), a.isOpposite(a)
Compare ==
    /\ \E i, j \in DOMAIN lits :
          cmp' = [valid |-> TRUE, a |-> lits[i], b |-> lits[j],
                  eqAB |-> isEqual(lits[i], lits[j]),
                  oppAB |-> isOpposite(lits[i], lits[j]),
                  oppBA |-> isOpposite(lits[j], lits[i]),
                  oppAA |-> isOpposite(lits[i], lits[i])]
    /\ str' = NoStr
    /\ parsed' = NoParsed
    /\ UNCHANGED <<lits, cons, heapVars, inf>>

NextLit == Construct \/ Instantiate \/ PrintList \/ AddFalse \/ ParseList \/ Compare



(* =========================== rescontrol.py ============================ *)
(* The resolution and factoring rules are external: what the c-th call of  *)
(* a rule returns is an input, rule[c], either None or a clause, of which  *)
(* only the number of literals matters here.                               *)

NoResult == [isNone |-> TRUE, len |-> 0]
RuleResults == {NoResult, [isNone |-> FALSE, len |-> 0], [isNone |-> FALSE, len |-> 1]}

\* the k-th (clause, literal index) pair a clause set returns
Partner(k) == <<k, k % 2>>

\* a plausible slip: the truth value of the resolvent is tested
DropsEmptyClause(r) == ~r.isNone /\ r.len # 0

\* `resolvent != None`
NotNone(r) == ~r.isNone

\* `if fact:`; a clause has __len__ (len(clause) is used by both functions)
\* and so is false exactly when it has no literal
Truthy(r) == ~r.isNone /\ r.len # 0

RECURSIVE resolventsInner(_, _, _, _, _)
\* computeAllResolvents: `for (cl2, lit2) in partners`, from the k-th partner
resolventsInner(lit, partners, k, rule, acc) ==
    IF k > Len(partners) THEN acc
    ELSE LET c == Len(acc.calls) + 1
             resolvent == rule[c]
             called == Append(acc.calls, [lit |-> lit, pos |-> k,
                                          cl2 |-> partners[k][1], lit2 |-> partners[k][2]]) IN
         resolventsInner(lit, partners, k + 1, rule,
             [calls |-> called,
              res |-> IF NotNone(resolvent)
                      THEN Append(acc.res, [call |-> c, clause |-> resolvent])
                      ELSE acc.res])

RECURSIVE resolventsOuter(_, _, _, _, _)
\* computeAllResolvents: `for lit in xrange(len(clause))`, from position lit
resolventsOuter(lit, n, partners, rule, acc) ==
    IF lit >= n THEN acc
    ELSE resolventsOuter(lit + 1, n, partners, rule,
             resolventsInner(lit, partners[lit + 1], 1, rule, acc))

\* computeAllResolvents: the calls of the rule it makes and the list it returns
computeAllResolvents(n, partners, rule) ==
    resolventsOuter(0, n, partners, rule, [calls |-> <<>>, res |-> <<>>])

RECURSIVE factorsInner(_, _, _, _, _)
\* computeAllFactors: `for j in xrange(i+1, len(clause))`, from position j
factorsInner(i, j, n, rule, acc) ==
    IF j >= n THEN acc
    ELSE LET c == Len(acc.calls) + 1
             fact == rule[c] IN
         factorsInner(i, j + 1, n, rule,
             [calls |-> Append(acc.calls, [i |-> i, j |-> j]),
              res |-> IF Truthy(fact)
                      THEN Append(acc.res, [call |-> c, clause |-> fact])
                      ELSE acc.res])

RECURSIVE factorsOuter(_, _, _, _)
\* computeAllFactors: `for i in xrange(len(clause))`, from position i
factorsOuter(i, n, rule, acc) ==
    IF i >= n THEN acc
    ELSE factorsOuter(i + 1, n, rule, factorsInner(i, i + 1, n, rule, acc))

\* computeAllFactors: the calls of the rule it makes and the list it returns
computeAllFactors(n, rule) ==
    factorsOuter(0, n, rule, [calls |-> <<>>, res |-> <<>>])

RECURSIVE SumLen(_)
\* the total length of a sequence of sequences
SumLen(ss) == IF ss = <<>> THEN 0 ELSE Len(ss[1]) + SumLen(Tail(ss))

\* no call of computeAllResolvents or computeAllFactors has returned
NoCall == [op |-> "none", n |-> 0, partners |-> <<>>, rule |-> <<>>,
           calls |-> <<>>, res |-> <<>>]

\* res = computeAllResolvents(clause, clauseset)
ComputeAllResolvents ==
    /\ inf = NoCall
    /\ \E n \in 0..MaxResLits :
      \E sizes \in [1..n -> 0..MaxPartners] :
        LET partners == [i \in 1..n |-> [k \in 1..sizes[i] |-> Partner(k)]] IN
        \E rule \in [1..SumLen(partners) -> RuleResults] :
          LET r == computeAllResolvents(n, partners, rule) IN
          /\ inf' = [op |-> "resolvents", n |-> n, partners |-> partners,
                     rule |-> rule, calls |-> r.calls, res |-> r.res]
          /\ UNCHANGED <<heapVars, litVars>>

\* res = computeAllFactors(clause)
ComputeAllFactors ==
    /\ inf = NoCall
    /\ \E n \in 0..MaxFacLits :
      \E rule \in [1..((n * (n - 1)) \div 2) -> RuleResults] :
        LET r == computeAllFactors(n, rule) IN
        /\ inf' = [op |-> "factors", n |-> n, partners |-> <<>>,
                   rule |-> rule, calls |-> r.calls, res |-> r.res]
        /\ UNCHANGED <<heapVars, litVars>>

\* the caller is done with the list returned and may call again
DropResult ==
    /\ inf # NoCall
    /\ inf' = NoCall
    /\ UNCHANGED <<heapVars, litVars>>

NextInf == ComputeAllResolvents \/ ComputeAllFactors \/ DropResult

(* ======================== the specifications ========================== *)

\* MinHeap.__init__, an empty literal list, and no call made yet
Init ==
    /\ tree = <<>>
    /\ ret = <<>>
    /\ raised = FALSE
    /\ lastOp = "init"
    /\ pure = TRUE
    /\ ins = <<>>
    /\ outs = <<>>
    /\ lits = <<>>
    /\ cons = NoCons
    /\ str = NoStr
    /\ parsed = NoParsed
    /\ cmp = NoCmp
    /\ inf = NoCall

SpecInf == Init /\ [][NextInf]_vars

NextHeap == Insert \/ GetBest

SpecHeap == Init /\ [][NextHeap]_vars

SpecLit == Init /\ [][NextLit]_vars

(* ------------------------- claims on the queue ------------------------ *)

\* the positions of outs that returned a real node
NodeCalls == {k \in DOMAIN outs : outs[k].st = "node"}

\* C1: the evaluations of the nodes returned by successive getBest calls
\* (with no insert in between) form a non-decreasing sequence.
C1_NonDecreasing ==
    \A i, j \in NodeCalls : i < j => outs[i].ev <= outs[j].ev

C1_Witness ==
    /\ pure
    /\ Len(ins) >= 3
    /\ outs # <<>>
    /\ outs[Len(outs)].st = "exhausted"
    /\ \E i, j \in NodeCalls : i < j /\ outs[i].ev < outs[j].ev

\* how often payload p occurs among the first n entries of a sequence of pairs
Occurrences(p, pairs, n) == Cardinality({k \in 1..n : pairs[k] = p})

\* C2: after N >= 1 inserts on an empty queue each of the next N getBest
\* calls returns a real node, the payloads returned are the payloads
\* inserted (as multisets), and the (N+1)-th call reports exhaustion.
C2_ExactlyNExtractions ==
    (pure /\ Len(ins) >= 1) =>
        LET N == Len(ins)
            got == [k \in DOMAIN outs |-> <<outs[k].clause, outs[k].count>>] IN
        /\ \A k \in DOMAIN outs :
              /\ k <= N => outs[k].st = "node"
              /\ k = N + 1 => outs[k].st = "exhausted"
        /\ Len(outs) >= N =>
              \A p \in Payloads : Occurrences(p, got, N) = Occurrences(p, ins, N)

\* C3: getBest on an empty queue returns (None, None, True) without
\* raising and leaves the queue empty; a call that returns a real node
\* returns the flag False.
C3_EmptySignal ==
    [][lastOp' = "getBest" =>
          IF tree = <<>>
          THEN ~raised' /\ ret' = <<None, None, TRUE>> /\ tree' = <<>>
          ELSE ~raised' => (Len(ret') = 3 /\ ret'[3] = FALSE /\ ret'[1] # None)]_vars

C3_Witness ==
    /\ lastOp = "getBest"
    /\ tree = <<>>
    /\ Len(outs) >= 3
    /\ outs[Len(outs)].st = "exhausted"
    /\ outs[Len(outs) - 1].st = "exhausted"
    /\ ret = <<None, None, TRUE>>

\* C8: a call that raises leaves the queue holding the nodes it held
\* before the call.
C8_FailureLeavesQueue ==
    [][raised' => tree' = tree]_vars

\* C10: after every completed call every node at position i > 0 has an
\* evaluation >= that of the node at floor((i-1)/2), which is the parent
\* bubbleup compares against; the root carries a minimum evaluation.
C10_HeapOrder ==
    /\ \A i \in 1..(MaxHeap - 1) : Parent(i) = (i - 1) \div 2
    /\ \A i \in 1..(Len(tree) - 1) :
          /\ At(tree, (i - 1) \div 2)[1] <= At(tree, i)[1]
          /\ At(tree, 0)[1] <= At(tree, i)[1]

C10_Witness ==
    /\ ~pure
    /\ lastOp = "getBest"
    /\ Len(tree) >= 4
    /\ At(tree, 0)[1] < At(tree, 3)[1]

(* ------------------------ claims on the literals ---------------------- *)

\* C4: constructing a Literal from an atom headed by != with arguments
\* (a, b) and sign s yields the atom = (a, b) with sign not s; any other
\* atom and its sign are kept; no literal built by construction, parsing
\* or instantiate stores an atom headed by !=.
C4_Normalization ==
    /\ cons.valid =>
          IF cons.atom[1] = "!="
          THEN /\ cons.lit.atom = <<"=", cons.atom[2], cons.atom[3]>>
               /\ cons.lit.negative = ~cons.negative
          ELSE /\ cons.lit.atom = cons.atom
               /\ cons.lit.negative = cons.negative
    /\ \A k \in DOMAIN lits : lits[k].atom[1] # "!="
    /\ \A k \in DOMAIN parsed.lits : parsed.lits[k].atom[1] # "!="

C4_Witness ==
    /\ cons.valid
    /\ cons.atom = <<"!=", <<"a">>, <<"X">>>>
    /\ cons.negative
    /\ Len(lits) = 2

\* C7: parsing the print of a literal list yields a list of the same
\* length whose k-th element isEqual to the k-th element printed, also
\* when $false disjuncts are added to the string; the empty list prints
\* as $false.
C7_RoundTrip ==
    /\ (str.valid /\ str.of = <<>> /\ ~str.front /\ ~str.back) => str.toks = <<"$false">>
    /\ parsed.valid =>
          /\ Len(parsed.lits) = Len(parsed.of)
          /\ \A k \in DOMAIN parsed.of : isEqual(parsed.lits[k], parsed.of[k])

C7_Witness ==
    /\ parsed.valid
    /\ parsed.front /\ parsed.back
    /\ Len(parsed.of) = 2
    /\ isEquational(parsed.of[1]) /\ isNegative(parsed.of[1])
    /\ ~isEquational(parsed.of[2]) /\ isNegative(parsed.of[2])

\* C9: a.isOpposite(b) = b.isOpposite(a); a.isOpposite(a) is false;
\* isOpposite and isEqual never both hold; isOpposite holds exactly when
\* the atoms are the same term and the signs differ.
C9_OppositeSymmetry ==
    cmp.valid =>
        /\ cmp.oppAB = cmp.oppBA
        /\ ~cmp.oppAA
        /\ ~(cmp.oppAB /\ cmp.eqAB)
        /\ cmp.oppAB <=> (cmp.a.atom = cmp.b.atom /\ cmp.a.negative # cmp.b.negative)

C9_Witness ==
    /\ cmp.valid
    /\ cmp.oppAB
    /\ isEquational(cmp.a)
    /\ cmp.a.atom[2] # cmp.a.atom[3]

(* ----------------- claims on the inference integration ---------------- *)

\* C5: computeAllResolvents calls the resolution rule exactly once for every
\* (literal position, partner) pair, in literal-position then partner
\* order, and returns exactly the results that are not None, in call order.
C5_ResolventsExact ==
    inf.op = "resolvents" =>
        LET calls == inf.calls
            res == inf.res
            nulls == {c \in DOMAIN inf.rule : inf.rule[c].isNone} IN
        /\ Len(calls) = SumLen(inf.partners)
        /\ \A i \in 1..inf.n : \A k \in 1..Len(inf.partners[i]) :
              /\ Cardinality({c \in DOMAIN calls :
                                 calls[c].lit = i - 1 /\ calls[c].pos = k}) = 1
              /\ \A c \in DOMAIN calls :
                    (calls[c].lit = i - 1 /\ calls[c].pos = k) =>
                        <<calls[c].cl2, calls[c].lit2>> = inf.partners[i][k]
        /\ \A c1, c2 \in DOMAIN calls : c1 < c2 =>
              \/ calls[c1].lit < calls[c2].lit
              \/ calls[c1].lit = calls[c2].lit /\ calls[c1].pos < calls[c2].pos
        /\ \A c \in DOMAIN calls :
              Cardinality({e \in DOMAIN res : res[e].call = c})
                  = IF inf.rule[c].isNone THEN 0 ELSE 1
        /\ \A e \in DOMAIN res :
              res[e].call \in DOMAIN calls /\ res[e].clause = inf.rule[res[e].call]
        /\ \A e1, e2 \in DOMAIN res : e1 < e2 => res[e1].call < res[e2].call
        /\ Len(res) = SumLen(inf.partners) - Cardinality(nulls)

C5_Witness ==
    /\ inf.op = "resolvents"
    /\ inf.n = 2
    /\ Len(inf.partners[1]) = 2 /\ Len(inf.partners[2]) = 2
    /\ inf.rule[1].isNone
    /\ ~inf.rule[2].isNone /\ inf.rule[2].len = 0
    /\ ~inf.rule[3].isNone /\ inf.rule[3].len = 1
    /\ Len(inf.res) = 3

\* C6: computeAllFactors calls the factoring rule exactly once for each
\* pair of positions i < j, n(n-1)/2 times, and returns every result of
\* those calls that is not None.
C6_FactorsExact ==
    inf.op = "factors" =>
        LET calls == inf.calls
            res == inf.res IN
        /\ Len(calls) = (inf.n * (inf.n - 1)) \div 2
        /\ \A c \in DOMAIN calls :
              0 <= calls[c].i /\ calls[c].i < calls[c].j /\ calls[c].j < inf.n
        /\ \A i, j \in 0..(inf.n - 1) : i < j =>
              Cardinality({c \in DOMAIN calls : calls[c] = [i |-> i, j |-> j]}) = 1
        /\ \A c \in DOMAIN calls :
              (\E e \in DOMAIN res : res[e].call = c) <=> ~inf.rule[c].isNone

====
